---------------------------- MODULE Spec2Model ----------------------------
(***************************************************************************)
(* harmony/config.py: the Config settings object.                          *)
(*                                                                         *)
(* State: process environment storage (os.environ), the local override     *)
(* file read by load_dotenv(), the class table Config.config, and the      *)
(* __dict__ of every Config instance constructed so far.  ctorArg and      *)
(* assigned record, per instance, the constructor's argument and the       *)
(* attributes assigned since; lastOp and result record the last call and   *)
(* what it returned or raised.  Operations: Config(environment), an        *)
(* attribute read (Config.__getattribute__), an attribute assignment on    *)
(* an instance, and external writes to and removals from os.environ.       *)
(***************************************************************************)
EXTENDS Naturals, Sequences, FiniteSets

VARIABLES env, dotenv, config, insts, ctorArg, assigned,
          lastOp, result

vars == <<env, dotenv, config, insts, ctorArg, assigned,
          lastOp, result>>

(* ------------------------------ bounds --------------------------------- *)

\* Config instances constructed in one run.
MaxInstances == 2
\* Variables an external write may leave set in os.environ at one time.
MaxEnvVars == 1
\* Attribute assignments on instances in one run.
MaxAssign == 1

(* --------------------------- Python values ----------------------------- *)

Str(s) == [t |-> "str", v |-> s]
Member(m) == [t |-> "Environment", v |-> m]
None == [t |-> "NoneType", v |-> "None"]
Exc(k) == [t |-> "exception", v |-> k]

Return(x) == [kind |-> "return", val |-> x]
Raise(k) == [kind |-> "raise", val |-> Exc(k)]

\* str(x) as an f-string placeholder renders it.
Format(x) ==
    CASE x.t = "str" -> x.v
      [] x.t = "Environment" -> "Environment." \o x.v
      [] OTHER -> x.v

(* ------------------------- module-level tables ------------------------- *)

Environment == {"SBX", "SIT", "UAT", "PROD"}

HOSTNAMES ==
    [m \in Environment |->
        CASE m = "SBX" -> "harmony.sbx.earthdata.nasa.gov"
          [] m = "SIT" -> "harmony.sit.earthdata.nasa.gov"
          [] m = "UAT" -> "harmony.uat.earthdata.nasa.gov"
          [] m = "PROD" -> "harmony.earthdata.nasa.gov"]

\* The class attribute Config.config as the class body builds it.
ConfigTable ==
    [k \in {"NUM_REQUESTS_WORKERS", "DOWNLOAD_CHUNK_SIZE"} |->
        IF k = "NUM_REQUESTS_WORKERS" THEN "3" ELSE "4194304"]

\* The default of __init__'s environment parameter.
DefaultEnvironment == "UAT"

\* Names of the properties (data descriptors without a setter) of the class.
Properties == {"harmony_hostname", "edl_validation_url"}

(* ---------------------- attribute names and upper() -------------------- *)

AttrNames ==
    {"NUM_REQUESTS_WORKERS", "DOWNLOAD_CHUNK_SIZE",
     "environment", "harmony_hostname", "edl_validation_url",
     "NOT_A_REAL_SETTING"}

\* name.upper() on the attribute names of the model.
Upper(name) ==
    CASE name = "environment" -> "ENVIRONMENT"
      [] name = "harmony_hostname" -> "HARMONY_HOSTNAME"
      [] name = "edl_validation_url" -> "EDL_VALIDATION_URL"
      [] OTHER -> name

EnvNames == {Upper(n) : n \in AttrNames}

\* The values an external write gives a variable.
EnvValues(k) ==
    CASE k = "HARMONY_HOSTNAME" -> {"custom.example.com"}
      [] k = "ENVIRONMENT" -> {"PROD"}
      [] k = "EDL_VALIDATION_URL" -> {"https://localhost/jobs"}
      [] k = "NOT_A_REAL_SETTING" -> {""}
      [] OTHER -> {"10"}

(* ----------------------------- mappings -------------------------------- *)

Empty == [k \in {} |-> ""]
Put(f, k, x) == [a \in DOMAIN f \cup {k} |-> IF a = k THEN x ELSE f[a]]
Del(f, k) == [a \in DOMAIN f \ {k} |-> f[a]]

(* ------------------------ the local override file ---------------------- *)

NoFile == [exists |-> FALSE, vars |-> Empty]

DotenvFiles ==
    {NoFile,
     [exists |-> TRUE,
      vars |-> [k \in {"NUM_REQUESTS_WORKERS", "HARMONY_HOSTNAME"} |->
                  IF k = "NUM_REQUESTS_WORKERS" THEN "8"
                  ELSE "file.example.com"]]}

\* load_dotenv(override=True): the file's value replaces a set variable.
LoadDotenvOverride(e, f) ==
    IF ~f.exists THEN e
    ELSE [k \in DOMAIN e \cup DOMAIN f.vars |->
            IF k \in DOMAIN f.vars THEN f.vars[k] ELSE e[k]]

\* load_dotenv() with its default arguments (override = False): a missing
\* file loads nothing; a name already in os.environ keeps its value.
LoadDotenv(e, f) ==
    IF ~f.exists THEN e
    ELSE [k \in DOMAIN e \cup DOMAIN f.vars |->
            IF k \in DOMAIN e THEN e[k] ELSE f.vars[k]]

(* --------------------------- attribute reads --------------------------- *)

RECURSIVE GetAttribute(_, _, _)

\* HOSTNAMES[Environment.UAT]: the instance's environment is not consulted.
HarmonyHostnameFixed(e, d) == Return(Str(HOSTNAMES[DefaultEnvironment]))

\* The body of the harmony_hostname property: HOSTNAMES[self.environment].
\* self.environment is itself read through __getattribute__.
HarmonyHostname(e, d) ==
    LET r == GetAttribute(e, d, "environment") IN
    IF r.kind = "raise" THEN r
    ELSE IF r.val.t = "Environment" /\ r.val.v \in DOMAIN HOSTNAMES
         THEN Return(Str(HOSTNAMES[r.val.v]))
    ELSE Raise("KeyError")

\* f'https://{HOSTNAMES[self.environment]}/jobs': the URL built from the
\* table, not from self.harmony_hostname.
EdlValidationUrlFromTable(e, d) ==
    LET r == HarmonyHostname(e, d) IN
    IF r.kind = "raise" THEN r
    ELSE Return(Str("https://" \o Format(r.val) \o "/jobs"))

\* The body of the edl_validation_url property.
EdlValidationUrl(e, d) ==
    LET r == GetAttribute(e, d, "harmony_hostname") IN
    IF r.kind = "raise" THEN r
    ELSE Return(Str("https://" \o Format(r.val) \o "/jobs"))

\* object.__getattribute__(self, name): a property of the class first, then
\* the instance __dict__, else AttributeError.
ObjectGetAttribute(e, d, name) ==
    CASE name = "harmony_hostname" -> HarmonyHostname(e, d)
      [] name = "edl_validation_url" -> EdlValidationUrl(e, d)
      [] name \notin Properties /\ name \in DOMAIN d -> Return(d[name])
      [] OTHER -> Raise("AttributeError")

\* os.getenv(name): the variable looked up without upper().
GetAttributeNoUpper(e, d, name) ==
    IF name \in DOMAIN e THEN Return(Str(e[name]))
    ELSE LET r == ObjectGetAttribute(e, d, name) IN
         IF r.kind = "raise" /\ r.val = Exc("AttributeError")
         THEN Return(None)
         ELSE r

\* No try/except around object.__getattribute__.
GetAttributeNoCatch(e, d, name) ==
    IF Upper(name) \in DOMAIN e THEN Return(Str(e[Upper(name)]))
    ELSE ObjectGetAttribute(e, d, name)

\* The value kept on the instance wins over os.environ.
GetAttributeCached(e, d, name) ==
    IF name \notin Properties /\ name \in DOMAIN d THEN Return(d[name])
    ELSE IF Upper(name) \in DOMAIN e THEN Return(Str(e[Upper(name)]))
    ELSE LET r == ObjectGetAttribute(e, d, name) IN
         IF r.kind = "raise" /\ r.val = Exc("AttributeError")
         THEN Return(None)
         ELSE r

\* Config.__getattribute__(self, name).
GetAttribute(e, d, name) ==
    IF Upper(name) \in DOMAIN e THEN Return(Str(e[Upper(name)]))
    ELSE LET r == ObjectGetAttribute(e, d, name) IN
         IF r.kind = "raise" /\ r.val = Exc("AttributeError")
         THEN Return(None)
         ELSE r

(* ------------------------------- state --------------------------------- *)

NoOp == [op |-> "start", inst |-> 0, name |-> ""]

Instances == 1..Len(insts)

\* The attributes a caller assigns: the stored one and a property.
AssignNames == {"environment", "harmony_hostname"}

AssignValues(name) ==
    IF name = "environment" THEN {Member("PROD")} ELSE {Str("localhost")}

Init ==
    /\ env = Empty
    /\ dotenv \in DotenvFiles
    /\ config = ConfigTable
    /\ insts = <<>>
    /\ ctorArg = <<>>
    /\ assigned = {}
    /\ lastOp = NoOp
    /\ result = Return(None)

(* ------------------------------ operations ----------------------------- *)

\* __init__ without the loop over Config.config.
NewDictNoDefaults(table, environment) ==
    [k \in {"environment"} |-> Member(environment)]

\* self.environment = Environment.UAT: the parameter is not stored.
NewDictIgnoresArgument(table, environment) ==
    Put([k \in DOMAIN table |-> Str(table[k])], "environment",
        Member(DefaultEnvironment))

\* The __dict__ of a new instance after __init__'s loop and assignment.
NewDict(table, environment) ==
    Put([k \in DOMAIN table |-> Str(table[k])], "environment",
        Member(environment))

\* Config.__init__(self, environment), the call named op.
Init__(environment, op) ==
    /\ Len(insts) < MaxInstances
    /\ env' = LoadDotenv(env, dotenv)
    /\ insts' = Append(insts, NewDict(config, environment))
    /\ ctorArg' = Append(ctorArg, environment)
    /\ lastOp' = [op |-> op, inst |-> Len(insts) + 1, name |-> ""]
    /\ result' = Return(None)
    /\ UNCHANGED <<dotenv, config, assigned>>

\* Config(environment)
Construct(environment) == Init__(environment, "Config(environment)")

\* Config()
ConstructDefault == Init__(DefaultEnvironment, "Config()")

\* An attribute read  cfg.<name>  on instance i.
Read(i, name) ==
    /\ result' = GetAttribute(env, insts[i], name)
    /\ lastOp' = [op |-> "read", inst |-> i, name |-> name]
    /\ UNCHANGED <<env, dotenv, config, insts, ctorArg, assigned>>

\* setattr(Config, name, x): the assignment lands on every instance.
SetAttrOnClass(i, name, x) ==
    /\ Cardinality(assigned \cup {<<i, name>>}) <= MaxAssign
    /\ lastOp' = [op |-> "setattr", inst |-> i, name |-> name]
    /\ IF name \in Properties
       THEN /\ result' = Raise("AttributeError")
            /\ UNCHANGED <<insts, assigned>>
       ELSE /\ result' = Return(None)
            /\ insts' = [j \in Instances |-> Put(insts[j], name, x)]
            /\ assigned' = assigned \cup {<<i, name>>}
    /\ UNCHANGED <<env, dotenv, config, ctorArg>>

\* An assignment  cfg.<name> = x  on instance i (object.__setattr__): a
\* property without a setter raises AttributeError, any other name is
\* stored in the instance __dict__.
SetAttr(i, name, x) ==
    /\ Cardinality(assigned \cup {<<i, name>>}) <= MaxAssign
    /\ lastOp' = [op |-> "setattr", inst |-> i, name |-> name]
    /\ IF name \in Properties
       THEN /\ result' = Raise("AttributeError")
            /\ UNCHANGED <<insts, assigned>>
       ELSE /\ result' = Return(None)
            /\ insts' = [insts EXCEPT ![i] = Put(@, name, x)]
            /\ assigned' = assigned \cup {<<i, name>>}
    /\ UNCHANGED <<env, dotenv, config, ctorArg>>

\* os.environ[k] = x, from anywhere in the process.
SetEnv(k, x) ==
    /\ Cardinality(DOMAIN env \cup {k}) <= MaxEnvVars
    /\ env' = Put(env, k, x)
    /\ lastOp' = [op |-> "setenv", inst |-> 0, name |-> k]
    /\ result' = Return(None)
    /\ UNCHANGED <<dotenv, config, insts, ctorArg, assigned>>

\* del os.environ[k], from anywhere in the process.
UnsetEnv(k) ==
    /\ k \in DOMAIN env
    /\ env' = Del(env, k)
    /\ lastOp' = [op |-> "unsetenv", inst |-> 0, name |-> k]
    /\ result' = Return(None)
    /\ UNCHANGED <<dotenv, config, insts, ctorArg, assigned>>

Next ==
    \/ \E a \in Environment : Construct(a)
    \/ ConstructDefault
    \/ \E i \in Instances, n \in AttrNames : Read(i, n)
    \/ \E i \in Instances, n \in AssignNames :
          \E x \in AssignValues(n) : SetAttr(i, n, x)
    \/ \E k \in EnvNames : \E x \in EnvValues(k) : SetEnv(k, x)
    \/ \E k \in EnvNames : UnsetEnv(k)

Spec == Init /\ [][Next]_vars

(* ------------------------------ properties ---------------------------- *)

IsRead == lastOp.op = "read"
IsConstruct == lastOp.op \in {"Config(environment)", "Config()"}

\* The attributes held in the __dict__ of instance i.
Stored(i) == DOMAIN insts[i] \ Properties

\* C1: a read of any attribute returns the value of the environment
\* variable named by the upper-cased attribute name whenever that variable
\* is set (the empty string included), whatever the instance holds; only
\* when it is not set does the read return the instance's own attribute.
C1_EnvironmentOverrides ==
    IsRead =>
        LET i == lastOp.inst
            n == lastOp.name
        IN  /\ Upper(n) \in DOMAIN env => result = Return(Str(env[Upper(n)]))
            /\ Upper(n) \notin DOMAIN env /\ n \in Stored(i) =>
                  result = Return(insts[i][n])

C1_Witness ==
    /\ IsRead
    /\ lastOp.name = "harmony_hostname"
    /\ ctorArg[lastOp.inst] = "PROD"
    /\ "HARMONY_HOSTNAME" \in DOMAIN env
    /\ env["HARMONY_HOSTNAME"] = "custom.example.com"
    /\ result = Return(Str("custom.example.com"))

\* C2 as stated: harmony_hostname read on a Config constructed with a
\* variant returns that variant's hostname of the static table.
C2_TableHostname ==
    IsRead /\ lastOp.name = "harmony_hostname"
        /\ <<lastOp.inst, "environment">> \notin assigned
    => result = Return(Str(HOSTNAMES[ctorArg[lastOp.inst]]))

\* C2 amended: the read returns the table hostname of the constructor's
\* variant when neither HARMONY_HOSTNAME nor ENVIRONMENT is set; it returns
\* the value of HARMONY_HOSTNAME when that is set; it raises KeyError when
\* ENVIRONMENT is set and HARMONY_HOSTNAME is not.
C2_TableHostnameUnlessOverridden ==
    IsRead /\ lastOp.name = "harmony_hostname"
        /\ <<lastOp.inst, "environment">> \notin assigned
    => CASE "HARMONY_HOSTNAME" \in DOMAIN env ->
                result = Return(Str(env["HARMONY_HOSTNAME"]))
         [] "HARMONY_HOSTNAME" \notin DOMAIN env
                /\ "ENVIRONMENT" \notin DOMAIN env ->
                /\ ctorArg[lastOp.inst] \in DOMAIN HOSTNAMES
                /\ result = Return(Str(HOSTNAMES[ctorArg[lastOp.inst]]))
                /\ result.val.v # ""
         [] OTHER -> result = Raise("KeyError")

C2_Witness ==
    /\ IsRead
    /\ lastOp.name = "harmony_hostname"
    /\ ctorArg[lastOp.inst] = "SBX"
    /\ env = Empty
    /\ result = Return(Str("harmony.sbx.earthdata.nasa.gov"))

\* What a read of harmony_hostname on instance i returns in this state.
HostnameNow(i) == GetAttribute(env, insts[i], "harmony_hostname")

Url(h) == Return(Str("https://" \o h \o "/jobs"))

\* C3 as stated: edl_validation_url is https://<hostname>/jobs, where
\* <hostname> is what a read of harmony_hostname on the same instance
\* returns at that moment.
C3_UrlFromHostname ==
    IsRead /\ lastOp.name = "edl_validation_url"
        /\ HostnameNow(lastOp.inst).kind = "return"
    => result = Url(HostnameNow(lastOp.inst).val.v)

\* C3 amended: that holds when no EDL_VALIDATION_URL variable is set (and
\* the read raises what the harmony_hostname read raises); when
\* EDL_VALIDATION_URL is set the read returns that variable's value.
C3_UrlFromHostnameUnlessOverridden ==
    IsRead /\ lastOp.name = "edl_validation_url"
    => LET h == HostnameNow(lastOp.inst) IN
       CASE "EDL_VALIDATION_URL" \in DOMAIN env ->
                result = Return(Str(env["EDL_VALIDATION_URL"]))
         [] "EDL_VALIDATION_URL" \notin DOMAIN env /\ h.kind = "return" ->
                result = Url(h.val.v)
         [] OTHER -> result = h

C3_Witness ==
    /\ IsRead
    /\ lastOp.name = "edl_validation_url"
    /\ DOMAIN env = {"HARMONY_HOSTNAME"}
    /\ env["HARMONY_HOSTNAME"] = "custom.example.com"
    /\ result = Return(Str("https://custom.example.com/jobs"))

\* C4: no attribute read raises, whatever os.environ contains.
C4_NoReadRaises == IsRead => result.kind = "return"

\* C5: a name that is no stored attribute, no property and names no set
\* variable reads as None.
C5_UnknownIsNone ==
    IsRead /\ Upper(lastOp.name) \notin DOMAIN env
        /\ lastOp.name \notin DOMAIN insts[lastOp.inst]
        /\ lastOp.name \notin Properties
    => result = Return(None)

C5_Witness ==
    /\ IsRead
    /\ lastOp.name = "NOT_A_REAL_SETTING"
    /\ "NOT_A_REAL_SETTING" \notin DOMAIN env
    /\ result = Return(None)

\* A step that constructs a Config.
Constructed == Len(insts') = Len(insts) + 1

\* What a read of name on the newest instance returns after the step.
NewReads(name) == GetAttribute(env', insts'[Len(insts')], name)

FileDefines(k) == dotenv.exists /\ k \in DOMAIN dotenv.vars

Defaults == {"NUM_REQUESTS_WORKERS", "DOWNLOAD_CHUNK_SIZE"}

\* C7 as stated: with neither NUM_REQUESTS_WORKERS nor DOWNLOAD_CHUNK_SIZE
\* set before construction, the new Config reads "3" and "4194304".
C7_DefaultsWhenUnsetBefore ==
    [][Constructed /\ Defaults \cap DOMAIN env = {} =>
         /\ NewReads("NUM_REQUESTS_WORKERS") = Return(Str("3"))
         /\ NewReads("DOWNLOAD_CHUNK_SIZE") = Return(Str("4194304"))]_vars

\* C7 amended: that holds when, in addition, the override file defines
\* neither name; a name the file defines is loaded by the construction and
\* the new Config reads the file's value for it.
C7_DefaultsWhenUnsetAndNotInFile ==
    [][Constructed /\ Defaults \cap DOMAIN env = {} =>
         /\ \A k \in Defaults :
                NewReads(k) = IF FileDefines(k)
                              THEN Return(Str(dotenv.vars[k]))
                              ELSE Return(Str(ConfigTable[k]))
         /\ ~FileDefines("NUM_REQUESTS_WORKERS") =>
                NewReads("NUM_REQUESTS_WORKERS") = Return(Str("3"))
         /\ ~FileDefines("DOWNLOAD_CHUNK_SIZE") =>
                NewReads("DOWNLOAD_CHUNK_SIZE") = Return(Str("4194304"))]_vars

C7_Witness ==
    /\ IsRead
    /\ lastOp.name = "DOWNLOAD_CHUNK_SIZE"
    /\ ctorArg[lastOp.inst] = "SIT"
    /\ Defaults \cap DOMAIN env = {}
    /\ result = Return(Str("4194304"))

\* C8: with no ENVIRONMENT variable set, a read of environment returns the
\* variant passed to the constructor (for an instance whose environment was
\* not assigned since), and UAT after a construction without an argument.
C8_EnvironmentIsArgument ==
    /\ IsRead /\ lastOp.name = "environment"
          /\ "ENVIRONMENT" \notin DOMAIN env
          /\ <<lastOp.inst, "environment">> \notin assigned
       => result = Return(Member(ctorArg[lastOp.inst]))
    /\ lastOp.op = "Config()" /\ "ENVIRONMENT" \notin DOMAIN env
       => GetAttribute(env, insts[lastOp.inst], "environment")
             = Return(Member("UAT"))

C8_Witness ==
    /\ IsRead
    /\ lastOp.name = "environment"
    /\ ctorArg[lastOp.inst] = "SIT"
    /\ "ENVIRONMENT" \notin DOMAIN env
    /\ result = Return(Member("SIT"))

\* C9: no caching: a read that follows a write to the variable its name
\* upper-cases to returns the written value, on whichever instance; every
\* instance sees that same value; a read that follows the removal of the
\* variable returns the instance's own attribute.
C9_NoCaching ==
    [][lastOp'.op = "read" /\ lastOp.op \in {"setenv", "unsetenv"}
          /\ Upper(lastOp'.name) = lastOp.name =>
         LET i == lastOp'.inst
             n == lastOp'.name
         IN  /\ lastOp.op = "setenv" =>
                  /\ result' = Return(Str(env[lastOp.name]))
                  /\ \A j \in Instances :
                        GetAttribute(env, insts[j], n) = result'
             /\ lastOp.op = "unsetenv" /\ n \in Stored(i) =>
                  result' = Return(insts[i][n])]_vars

C9_Witness ==
    /\ IsRead
    /\ lastOp.name = "NUM_REQUESTS_WORKERS"
    /\ lastOp.inst = 2
    /\ FileDefines("NUM_REQUESTS_WORKERS")
    /\ "NUM_REQUESTS_WORKERS" \notin DOMAIN env
    /\ result = Return(Str("3"))

\* C10: the table Config.config never changes; an assignment on one
\* instance leaves the attributes of every other instance as they were; a
\* new instance starts from the built-in defaults; a read that follows the
\* assignment of its attribute returns the assigned value when the variable
\* of the upper-cased name is not set, and the variable's value when it is.
C10_InstancesAreIsolated ==
    /\ [](config = ConfigTable)
    /\ [][lastOp'.op = "setattr" =>
            \A j \in Instances \ {lastOp'.inst} : insts'[j] = insts[j]]_vars
    /\ [][Constructed =>
            /\ \A k \in DOMAIN ConfigTable :
                  insts'[Len(insts')][k] = Str(ConfigTable[k])
            /\ \A j \in Instances : insts'[j] = insts[j]]_vars
    /\ [][lastOp.op = "setattr" /\ result.kind = "return"
            /\ lastOp'.op = "read" /\ lastOp'.inst = lastOp.inst
            /\ lastOp'.name = lastOp.name =>
            result' = IF Upper(lastOp.name) \in DOMAIN env
                      THEN Return(Str(env[Upper(lastOp.name)]))
                      ELSE Return(insts[lastOp.inst][lastOp.name])]_vars

C10_Witness ==
    /\ IsRead
    /\ lastOp.name = "environment"
    /\ lastOp.inst = 1
    /\ ctorArg = <<"SIT", "UAT">>
    /\ assigned = {<<1, "environment">>}
    /\ "ENVIRONMENT" \notin DOMAIN env
    /\ insts[2]["environment"] = Member("UAT")
    /\ result = Return(Member("PROD"))

=============================================================================
